---- MODULE Spec2Model ----
(***************************************************************************)
(* Watchtower: a sliding-window loop detector (loop_score.py) driven by an *)
(* interceptor that streams the node executions of a LangGraph graph       *)
(* (interceptor.py).                                                       *)
(*                                                                         *)
(* Numbers.  The detector works on Python floats.  Every quantity it       *)
(* computes is a rational with a small denominator, so the model keeps     *)
(* numerator and denominator and compares exactly.  round(x, 2) is         *)
(* modelled on hundredths; on an exact tie (x.xx5) the float nearest to    *)
(* the rational decides the direction, which depends on the summation, so  *)
(* the model allows both directions there.                                 *)
(***************************************************************************)
EXTENDS Integers, Sequences, FiniteSets, TLC

VARIABLES
    cfg,               \* constructor arguments: threshold, window_size, min_steps, on_loop
    steps,             \* LoopDetector.steps
    result,            \* the LoopResult of the latest add_step call
    alerts,            \* WatchtowerInterceptor.alerts
    max_score,         \* WatchtowerInterceptor.max_score (hundredths)
    total_steps,       \* WatchtowerInterceptor.total_steps
    hero_alert_fired,  \* WatchtowerInterceptor._hero_alert_fired
    final_result,      \* the local final_result of invoke
    event_keys,        \* node names of the current event already iterated, while it has more
    pc,                \* position of invoke: "idle", "streaming", "returned"
    outcome,           \* how the latest invoke ended
    returned,          \* the value the latest invoke returned
    callbacks,         \* number of on_loop calls made by the current invoke
    last,              \* what the latest loop iteration did
    graph_runs,        \* executions of the underlying graph started by the current invoke
    previous           \* how the invoke before the current one left the alert flag

vars == <<cfg, steps, result, alerts, max_score, total_steps, hero_alert_fired,
          final_result, event_keys, pc, outcome, returned, callbacks, last,
          graph_runs, previous>>

-----------------------------------------------------------------------------
(* Bounds *)

MaxSteps == 7

MaxSeqSteps == 8

MaxDetSteps == 5

MaxEventNodes == 2

\* steps of the end-to-end scenario
ScenarioSteps == 20

\* steps of a session over the cyclic graph
CycleSteps == 12

-----------------------------------------------------------------------------
(* Small helpers *)

Min(a, b) == IF a <= b THEN a ELSE b

Max(a, b) == IF a >= b THEN a ELSE b

Range(s) == {s[i] : i \in 1..Len(s)}

RECURSIVE Flatten(_)
Flatten(ss) == IF ss = <<>> THEN <<>> ELSE Head(ss) \o Flatten(Tail(ss))

\* Counter(xs)[v]
Occurrences(xs, v) == Cardinality({i \in 1..Len(xs) : xs[i] = v})

\* "→".join(names)
RECURSIVE Join(_)
Join(names) ==
    IF names = <<>> THEN ""
    ELSE IF Len(names) = 1 THEN names[1]
    ELSE names[1] \o "→" \o Join(Tail(names))

\* round(num/den, 2) in hundredths; both neighbours on an exact tie
Round2(num, den) ==
    LET q == (100 * num) \div den
        r == (100 * num) % den
    IN  IF 2 * r < den THEN {q}
        ELSE IF 2 * r > den THEN {q + 1}
        ELSE {q, q + 1}

-----------------------------------------------------------------------------
(* loop_score.py *)

Step(node_name, tool_calls, action_label) ==
    [node_name |-> node_name, tool_calls |-> tool_calls,
     action_label |-> action_label, step_number |-> 0]

LoopResult(score, node_repetition, sequence_repetition, tool_repetition, pattern, repeat_count, is_alert) ==
    [score |-> score, node_repetition |-> node_repetition,
     sequence_repetition |-> sequence_repetition,
     tool_repetition |-> tool_repetition, pattern |-> pattern,
     repeat_count |-> repeat_count, is_alert |-> is_alert]

ZeroResult == LoopResult(0, 0, 0, 0, "", 0, FALSE)

\* self.steps[-self.window_size:]  (Python slice: -0 is 0, the whole list)
Window(all_steps, window_size) ==
    LET n == Len(all_steps)
        start == IF window_size > 0 THEN Max(0, n - window_size)
                 ELSE Min(n, -window_size)
    IN  SubSeq(all_steps, start + 1, n)

NodeNames(window) == [i \in 1..Len(window) |-> window[i].node_name]

\* counts.most_common(1)[0][1]
MostCommonCount(names) ==
    LET cs == {Occurrences(names, v) : v \in Range(names)}
    IN  CHOOSE c \in cs : \A d \in cs : d <= c

\* len(counts)
UniqueNodes(names) == Cardinality(Range(names))

\* node_rep = 0.5 * concentration + 0.5 * max(0.0, 1.0 - (unique_nodes - 1) * 0.2)
\*          = (5 * most_common + n * max(0, 6 - unique)) / (10 * n)
NodeRepBadWeights(names) ==
    [num |-> 4 * MostCommonCount(names)
               + Len(names) * Max(0, 6 - UniqueNodes(names)),
     den |-> 10 * Len(names)]

NodeRep(names) ==
    [num |-> 5 * MostCommonCount(names)
               + Len(names) * Max(0, 6 - UniqueNodes(names)),
     den |-> 10 * Len(names)]

\* the while loop stopping at i > 0: the block at the start of the window is missed
RECURSIVE CountBlocksSkipsFirst(_, _, _)
CountBlocksSkipsFirst(names, pattern_len, i) ==
    IF i <= 0 THEN 0
    ELSE IF SubSeq(names, i + 1, i + pattern_len)
              = SubSeq(names, Len(names) - pattern_len + 1, Len(names))
         THEN 1 + CountBlocksSkipsFirst(names, pattern_len, i - pattern_len)
         ELSE 0

\* the while loop: consecutive blocks equal to the candidate, walking back from i
\* (i is the 0-based start of the block under test)
RECURSIVE CountBlocks(_, _, _)
CountBlocks(names, pattern_len, i) ==
    IF i < 0 THEN 0
    ELSE IF SubSeq(names, i + 1, i + pattern_len)
              = SubSeq(names, Len(names) - pattern_len + 1, Len(names))
         THEN 1 + CountBlocks(names, pattern_len, i - pattern_len)
         ELSE 0

\* the for loop replacing the best pattern on an equal score
RECURSIVE SequenceLoopTiesLatest(_, _, _)
SequenceLoopTiesLatest(names, pattern_len, best) ==
    IF pattern_len >= Min(5, Len(names) \div 2 + 1) THEN best
    ELSE LET count == CountBlocks(names, pattern_len, Len(names) - pattern_len)
             cov   == Min(Len(names), count * pattern_len)
             next  == IF count >= 2 /\ cov >= best.num
                      THEN [num |-> cov,
                            pattern |-> Join(SubSeq(names,
                                Len(names) - pattern_len + 1, Len(names))),
                            count |-> count]
                      ELSE best
         IN  SequenceLoopTiesLatest(names, pattern_len + 1, next)

\* the for loop scoring the share of the window the pattern does not cover
RECURSIVE SequenceLoopUncovered(_, _, _)
SequenceLoopUncovered(names, pattern_len, best) ==
    IF pattern_len >= Min(5, Len(names) \div 2 + 1) THEN best
    ELSE LET count == CountBlocks(names, pattern_len, Len(names) - pattern_len)
             cov   == Len(names) - Min(Len(names), count * pattern_len)
             next  == IF count >= 2 /\ cov > best.num
                      THEN [num |-> cov,
                            pattern |-> Join(SubSeq(names,
                                Len(names) - pattern_len + 1, Len(names))),
                            count |-> count]
                      ELSE best
         IN  SequenceLoopUncovered(names, pattern_len + 1, next)

\* the for loop over pattern_len in range(2, min(5, len(names) // 2 + 1));
\* best.num / len(names) is best_score
RECURSIVE SequenceLoop(_, _, _)
SequenceLoop(names, pattern_len, best) ==
    IF pattern_len >= Min(5, Len(names) \div 2 + 1) THEN best
    ELSE LET count == CountBlocks(names, pattern_len, Len(names) - pattern_len)
             cov   == Min(Len(names), count * pattern_len)
             next  == IF count >= 2 /\ cov > best.num
                      THEN [num |-> cov,
                            pattern |-> Join(SubSeq(names,
                                Len(names) - pattern_len + 1, Len(names))),
                            count |-> count]
                      ELSE best
         IN  SequenceLoop(names, pattern_len + 1, next)

DetectSequencePattern(names) ==
    SequenceLoop(names, 2, [num |-> 0, pattern |-> "", count |-> 0])

\* repeated / len(all_calls), 0.0 below two calls
DetectToolRepetitionPerSignature(window) ==
    LET all_calls == Flatten([i \in 1..Len(window) |-> window[i].tool_calls])
        distinct  == Range(all_calls)
    IN  IF Len(all_calls) < 2 THEN [num |-> 0, den |-> 1]
        ELSE [num |-> Len(all_calls) - Cardinality(distinct),
              den |-> Cardinality(distinct)]

\* repeated counting every occurrence of a duplicated call, not occurrences - 1
DetectToolRepetitionCountsAll(window) ==
    LET all_calls == Flatten([i \in 1..Len(window) |-> window[i].tool_calls])
        dup       == {i \in 1..Len(all_calls) : Occurrences(all_calls, all_calls[i]) > 1}
    IN  IF Len(all_calls) < 2 THEN [num |-> 0, den |-> 1]
        ELSE [num |-> Cardinality(dup), den |-> Len(all_calls)]

DetectToolRepetition(window) ==
    LET all_calls == Flatten([i \in 1..Len(window) |-> window[i].tool_calls])
        distinct  == Range(all_calls)
        \* sum(c - 1 for c in call_counts.values() if c > 1)
        repeated  == Len(all_calls) - Cardinality(distinct)
    IN  IF Len(all_calls) < 2 THEN [num |-> 0, den |-> 1]
        ELSE [num |-> repeated, den |-> Len(all_calls)]

\* score = min(1.0, max(0.0, 0.45 * seq_rep + 0.30 * node_rep + 0.25 * tool_rep))
\* over the common denominator 1000 * n * tool.den
CombinedScoreNoToolWeight(n, seq, node, tool) ==
    LET den == 1000 * n * tool.den
        num == 450 * seq.num * tool.den + 30 * node.num * tool.den
    IN  [num |-> Min(den, Max(0, num)), den |-> den]

CombinedScore(n, seq, node, tool) ==
    LET den == 1000 * n * tool.den
        num == 450 * seq.num * tool.den + 30 * node.num * tool.den
                 + 250 * tool.num * n
    IN  [num |-> Min(den, Max(0, num)), den |-> den]

\* add_step deciding is_alert on the rounded score
AnalyzeWindowAlertOnRounded(window, threshold) ==
    IF Len(window) < 3 THEN {LoopResult(0, 0, 0, 0, "", 0, FALSE)}
    ELSE LET names == NodeNames(window)
             node  == NodeRep(names)
             seq   == DetectSequencePattern(names)
             tool  == DetectToolRepetition(window)
             score == CombinedScore(Len(window), seq, node, tool)
         IN  {LoopResult(s, nr, sr, tr, seq.pattern, seq.count, s >= threshold) :
                s \in Round2(score.num, score.den),
                nr \in Round2(node.num, node.den),
                sr \in Round2(seq.num, Len(names)),
                tr \in Round2(tool.num, tool.den)}

\* The set of LoopResults add_step can return once the step is appended.
\* is_alert compares the score before rounding with the threshold (hundredths).
AnalyzeWindow(window, threshold) ==
    IF Len(window) < 3 THEN {ZeroResult}
    ELSE LET names == NodeNames(window)
             node  == NodeRep(names)
             seq   == DetectSequencePattern(names)
             tool  == DetectToolRepetition(window)
             score == CombinedScore(Len(window), seq, node, tool)
         IN  {LoopResult(s, nr, sr, tr, seq.pattern, seq.count,
                         100 * score.num >= threshold * score.den) :
                s \in Round2(score.num, score.den),
                nr \in Round2(node.num, node.den),
                sr \in Round2(seq.num, Len(names)),
                tr \in Round2(tool.num, tool.den)}

\* step.step_number = len(self.steps) + 1; self.steps.append(step)
AppendStep(all_steps, step) ==
    Append(all_steps, [step EXCEPT !.step_number = Len(all_steps) + 1])

-----------------------------------------------------------------------------
(* Node outputs.  A payload is None, a dict or some other object.  A dict  *)
(* is given by its keys in insertion order and the value of "messages".    *)
(* A message either has a tool_calls attribute (possibly None) or not.     *)
(* A tool call's args are a dict of items; an item value is kept as its    *)
(* first 30 characters (head) and the rest (tail).                         *)

Key(name, private) == [name |-> name, private |-> private]

Payload(type, keys, messages, truthy) ==
    [type |-> type, keys |-> keys, messages |-> messages, truthy |-> truthy]

\* None
PNone == Payload("NoneType", <<>>, <<>>, FALSE)

\* research_agent's update (demo/loop_demo.py): one AIMessage with one tool call
PSearch ==
    Payload("dict",
            <<Key("research_results", FALSE), Key("iteration", FALSE),
              Key("messages", FALSE)>>,
            <<[has_tool_calls |-> TRUE, tool_calls_is_none |-> FALSE,
               tool_calls |-> <<[name |-> "web_search",
                                 args |-> <<[k |-> "query",
                                             head |-> "AI agent market analysis",
                                             tail |-> ""]>>]>>]>>,
            FALSE)

\* analysis_agent's update (demo/loop_demo.py)
PAnalysis ==
    Payload("dict",
            <<Key("analysis", FALSE), Key("needs_more_research", FALSE)>>,
            <<>>, TRUE)

\* a message whose tool_calls attribute is None
PNullToolCalls ==
    Payload("dict", <<Key("messages", FALSE)>>,
            <<[has_tool_calls |-> TRUE, tool_calls_is_none |-> TRUE,
               tool_calls |-> <<>>]>>,
            FALSE)

\* what graph.invoke(input_data) returns: the final state of the graph
GraphInvoke(input) ==
    Payload("dict", <<Key("task", FALSE), Key(input, FALSE)>>, <<>>, FALSE)

HasKey(output, name) == \E i \in 1..Len(output.keys) : output.keys[i].name = name

-----------------------------------------------------------------------------
(* interceptor.py: extraction *)

RECURSIVE JoinWith(_, _)
JoinWith(parts, sep) ==
    IF parts = <<>> THEN ""
    ELSE IF Len(parts) = 1 THEN parts[1]
    ELSE parts[1] \o sep \o JoinWith(Tail(parts), sep)

\* _compact_args for a dict of arguments
CompactArgs(args) ==
    LET shown == SubSeq(args, 1, Min(2, Len(args)))
        parts == [i \in 1..Len(shown) |->
                    shown[i].k \o "=" \o shown[i].head
                      \o (IF shown[i].tail # "" THEN "..." ELSE "")]
    IN  JoinWith(parts, ", ") \o (IF Len(args) > 2 THEN ", ..." ELSE "")

\* the calls one message contributes; raised when iterating tool_calls fails
MessageCalls(msg) ==
    IF msg.has_tool_calls
    THEN IF msg.tool_calls_is_none
         THEN [raised |-> TRUE, calls |-> <<>>]
         ELSE [raised |-> FALSE,
               calls |-> [i \in 1..Len(msg.tool_calls) |->
                            msg.tool_calls[i].name \o "("
                              \o CompactArgs(msg.tool_calls[i].args) \o ")"]]
    ELSE [raised |-> FALSE, calls |-> <<>>]

ExtractToolCalls(output) ==
    IF output.type = "NoneType" THEN [raised |-> FALSE, calls |-> <<>>]
    ELSE IF output.type = "dict"
    THEN LET per == [i \in 1..Len(output.messages) |-> MessageCalls(output.messages[i])]
         IN  [raised |-> \E i \in 1..Len(per) : per[i].raised,
              calls |-> Flatten([i \in 1..Len(per) |-> per[i].calls])]
    ELSE [raised |-> FALSE, calls |-> <<>>]

\* _extract_action_label without the `output is None` branch
ExtractActionLabelNoIdle(output, tool_calls) ==
    IF tool_calls # <<>> THEN ""
    ELSE IF output.type = "dict" /\ HasKey(output, "analysis") THEN "analyze"
    ELSE "step"

ExtractActionLabel(output, tool_calls) ==
    IF tool_calls # <<>> THEN ""
    ELSE IF output.type = "NoneType" THEN "idle"
    ELSE IF output.type = "dict"
    THEN IF HasKey(output, "analysis") THEN "analyze"
         ELSE IF HasKey(output, "final_output") THEN "write"
         ELSE IF HasKey(output, "needs_more_research")
         THEN (IF output.truthy THEN "decide → more research" ELSE "decide → done")
         ELSE IF output.messages # <<>> THEN "respond"
         ELSE LET keys == SelectSeq(output.keys, LAMBDA k : ~k.private)
                  two  == SubSeq(keys, 1, Min(2, Len(keys)))
              IN  IF keys # <<>>
                  THEN "update(" \o JoinWith([i \in 1..Len(two) |-> two[i].name], ", ") \o ")"
                  ELSE "step"
    ELSE "step"

-----------------------------------------------------------------------------
(* Inputs *)

\* node names a stream can produce; names starting with "__" are skipped
NodeNamesOfGraph == {"research_agent", "analysis_agent", "__interrupt__"}

StartsWithDunder(node_name) == node_name = "__interrupt__"

\* the outputs each node of the graph can produce (demo/loop_demo.py, plus
\* an update without messages and one whose message has tool_calls = None)
NodeOutputs(node_name) ==
    IF node_name = "research_agent" THEN {PSearch, PNone, PNullToolCalls}
    ELSE IF node_name = "analysis_agent" THEN {PAnalysis}
    ELSE {PNone}

\* what the on_loop callback can do when called
CallbackOutcomes == {"returns", "StopMonitoring", "Exception"}

Inputs == {"q1"}

\* the constructor arguments; threshold is in hundredths
Config(threshold, window_size, min_steps, on_loop) ==
    [threshold |-> threshold, window_size |-> window_size,
     min_steps |-> min_steps, on_loop |-> on_loop]

\* the defaults with and without a callback, a later min_steps, a window
\* that slides within MaxSteps
SessionConfigs ==
    {Config(70, 10, 5, TRUE), Config(70, 10, 5, FALSE),
     Config(70, 10, 7, TRUE), Config(70, 6, 5, TRUE)}

DetectorConfigs ==
    {Config(t, w, 5, FALSE) : t \in {0, 40, 100}, w \in {0, 2, 4}}

DetectorSteps ==
    {Step(n, t, "") : n \in {"research_agent", "analysis_agent"},
                      t \in {<<>>, <<"x">>, <<"x", "y">>}}

-----------------------------------------------------------------------------
(* interceptor.py: WatchtowerInterceptor *)

Last(kind, node_output) == [kind |-> kind, node_output |-> node_output]

\* __init__
Init ==
    /\ cfg \in SessionConfigs
    /\ steps = <<>>
    /\ result = ZeroResult
    /\ alerts = <<>>
    /\ max_score = 0
    /\ total_steps = 0
    /\ hero_alert_fired = FALSE
    /\ final_result = PNone
    /\ event_keys = {}
    /\ pc = "idle"
    /\ outcome = "none"
    /\ returned = PNone
    /\ callbacks = 0
    /\ last = Last("none", PNone)
    /\ graph_runs = 0
    /\ previous = "none"

\* invoke without `self._hero_alert_fired = False`
ResetSessionKeepsFlag ==
    /\ pc \in {"idle", "returned"}
    /\ steps' = <<>>
    /\ alerts' = <<>>
    /\ max_score' = 0
    /\ total_steps' = 0
    /\ hero_alert_fired' = hero_alert_fired
    /\ final_result' = PNone
    /\ event_keys' = {}
    /\ pc' = "streaming"
    /\ outcome' = "none"
    /\ returned' = PNone
    /\ callbacks' = 0
    /\ result' = ZeroResult
    /\ last' = Last("start", PNone)
    /\ graph_runs' = 1
    /\ UNCHANGED cfg

\* invoke, up to the first pull from graph.stream
ResetSession ==
    /\ pc \in {"idle", "returned"}
    /\ steps' = <<>>
    /\ alerts' = <<>>
    /\ max_score' = 0
    /\ total_steps' = 0
    /\ hero_alert_fired' = FALSE
    /\ final_result' = PNone
    /\ event_keys' = {}
    /\ pc' = "streaming"
    /\ outcome' = "none"
    /\ returned' = PNone
    /\ callbacks' = 0
    /\ result' = ZeroResult
    /\ last' = Last("start", PNone)
    /\ graph_runs' = 1
    /\ UNCHANGED cfg

Invoke ==
    /\ ResetSession
    /\ UNCHANGED previous

\* invoke, remembering whether the invoke before it had fired the alert
InvokeAgain ==
    /\ ResetSession
    /\ previous' = IF pc = "idle" THEN "none"
                   ELSE IF hero_alert_fired THEN "fired" ELSE "quiet"

\* the alert condition of the loop body
ShouldEscalateRepeatedly(res, fired, total, min_steps) ==
    /\ res.is_alert
    /\ total >= min_steps
    /\ res.repeat_count >= 3

ShouldEscalateEarly(res, fired, total, min_steps) ==
    /\ res.is_alert
    /\ ~fired
    /\ res.repeat_count >= 3

ShouldEscalateLate(res, fired, total, min_steps) ==
    /\ res.is_alert
    /\ ~fired
    /\ total >= min_steps
    /\ res.repeat_count > 3

ShouldEscalate(res, fired, total, min_steps) ==
    /\ res.is_alert
    /\ ~fired
    /\ total >= min_steps
    /\ res.repeat_count >= 3

\* except StopMonitoring: return final_result
OnStopMonitoringIgnored ==
    /\ pc' = "streaming"
    /\ outcome' = "stopped"
    /\ returned' = final_result
    /\ UNCHANGED <<final_result, graph_runs>>

OnStopMonitoring ==
    /\ pc' = "returned"
    /\ outcome' = "stopped"
    /\ returned' = final_result
    /\ UNCHANGED <<final_result, graph_runs>>

\* except Exception: return self.graph.invoke(input_data, ...)
OnExceptionReturnsPartial ==
    /\ pc' = "returned"
    /\ outcome' = "fallback"
    /\ returned' = final_result
    /\ graph_runs' = graph_runs
    /\ UNCHANGED final_result

OnException ==
    /\ pc' = "returned"
    /\ outcome' = "fallback"
    /\ \E input \in Inputs : returned' = GraphInvoke(input)
    /\ graph_runs' = graph_runs + 1
    /\ UNCHANGED final_result

\* the loop reaches final_result = node_output and goes on to the next item
Continue(node_output) ==
    /\ final_result' = node_output
    /\ UNCHANGED <<pc, outcome, returned, graph_runs>>

\* `continue` for a node whose name starts with "__" (last records the
\* latest item that reached the extraction)
SkipNode(node_name, node_output) ==
    /\ StartsWithDunder(node_name)
    /\ UNCHANGED <<steps, result, alerts, max_score, total_steps,
                   hero_alert_fired, final_result, pc, outcome, returned,
                   callbacks, last, graph_runs>>

\* extraction raises: the step never reaches the detector
ExtractionFault(node_name, node_output) ==
    /\ ~StartsWithDunder(node_name)
    /\ ExtractToolCalls(node_output).raised
    /\ last' = Last("fault", node_output)
    /\ OnException
    /\ UNCHANGED <<steps, result, alerts, max_score, total_steps,
                   hero_alert_fired, callbacks>>

\* the loop body from add_step on
ScoreStep(node_name, node_output) ==
    /\ LET tool_calls   == ExtractToolCalls(node_output).calls
           action_label == ExtractActionLabel(node_output, tool_calls)
           step         == Step(node_name, tool_calls, action_label)
       IN  /\ steps' = AppendStep(steps, step)
           /\ result' \in AnalyzeWindow(Window(steps', cfg.window_size), cfg.threshold)
    /\ total_steps' = total_steps + 1
    /\ max_score' = Max(max_score, result'.score)
    /\ IF ShouldEscalate(result', hero_alert_fired, total_steps', cfg.min_steps)
       THEN /\ hero_alert_fired' = TRUE
            /\ alerts' = Append(alerts, result')
            /\ IF cfg.on_loop
               THEN /\ callbacks' = callbacks + 1
                    /\ \E cb \in CallbackOutcomes :
                         \/ /\ cb = "returns"
                            /\ last' = Last("fired", node_output)
                            /\ Continue(node_output)
                         \/ /\ cb = "StopMonitoring"
                            /\ last' = Last("cancelled", node_output)
                            /\ OnStopMonitoring
                         \/ /\ cb = "Exception"
                            /\ last' = Last("fault", node_output)
                            /\ OnException
               ELSE /\ callbacks' = callbacks
                    /\ last' = Last("fired", node_output)
                    /\ Continue(node_output)
       ELSE /\ UNCHANGED <<hero_alert_fired, alerts, callbacks>>
            /\ last' = Last("scored", node_output)
            /\ Continue(node_output)

\* the loop body for a node that is not skipped and whose extraction returns
ScoreNode(node_name, node_output) ==
    /\ ~StartsWithDunder(node_name)
    /\ ~ExtractToolCalls(node_output).raised
    /\ Len(steps) < MaxSteps
    /\ ScoreStep(node_name, node_output)

\* one iteration of `for node_name, node_output in event.items()`, pulling the
\* next event from the stream when the current one is exhausted; the item is
\* either the last of its event or leaves more nodes to iterate
ProcessNode ==
    /\ pc = "streaming"
    /\ \E node_name \in NodeNamesOfGraph \ event_keys :
         \E node_output \in NodeOutputs(node_name) :
           /\ \/ SkipNode(node_name, node_output)
              \/ ExtractionFault(node_name, node_output)
              \/ ScoreNode(node_name, node_output)
           /\ \/ event_keys' = {}
              \/ /\ pc' = "streaming"
                 /\ Cardinality(event_keys) + 1 < MaxEventNodes
                 /\ event_keys' = event_keys \cup {node_name}
    /\ UNCHANGED <<cfg, previous>>

\* the stream is exhausted: return final_result
StreamEnd ==
    /\ pc = "streaming"
    /\ event_keys = {}
    /\ pc' = "returned"
    /\ outcome' = "completed"
    /\ returned' = final_result
    /\ last' = Last("end", PNone)
    /\ UNCHANGED <<cfg, previous, steps, result, alerts, max_score, total_steps,
                   hero_alert_fired, final_result, event_keys, callbacks,
                   graph_runs>>

Next == Invoke \/ ProcessNode \/ StreamEnd

Spec == Init /\ [][Next]_vars

-----------------------------------------------------------------------------
(* The detector used on its own *)

InitDetector ==
    /\ cfg \in DetectorConfigs
    /\ steps = <<>>
    /\ result = ZeroResult
    /\ alerts = <<>>
    /\ max_score = 0
    /\ total_steps = 0
    /\ hero_alert_fired = FALSE
    /\ final_result = PNone
    /\ event_keys = {}
    /\ pc = "idle"
    /\ outcome = "none"
    /\ returned = PNone
    /\ callbacks = 0
    /\ last = Last("none", PNone)
    /\ graph_runs = 0
    /\ previous = "none"

\* LoopDetector.add_step
AddStep ==
    /\ Len(steps) < MaxDetSteps
    /\ \E step \in DetectorSteps :
         /\ steps' = AppendStep(steps, step)
         /\ result' \in AnalyzeWindow(Window(steps', cfg.window_size), cfg.threshold)
    /\ last' = Last("add_step", PNone)
    /\ UNCHANGED <<cfg, previous, alerts, max_score, total_steps, hero_alert_fired,
                   final_result, event_keys, pc, outcome, returned, callbacks,
                   graph_runs>>

\* LoopDetector.reset
Reset ==
    /\ steps # <<>>
    /\ steps' = <<>>
    /\ last' = Last("reset", PNone)
    /\ UNCHANGED <<cfg, previous, result, alerts, max_score, total_steps,
                   hero_alert_fired, final_result, event_keys, pc, outcome,
                   returned, callbacks, graph_runs>>

NextDetector == AddStep \/ Reset

SpecDetector == InitDetector /\ [][NextDetector]_vars

-----------------------------------------------------------------------------
(* The detector fed node names only (no tool calls) *)

SequenceNodeNames == {"research_agent", "analysis_agent", "writer_agent"}

SequenceConfigs == {Config(70, w, 5, FALSE) : w \in {4, 6, 10}}

InitSequence ==
    /\ cfg \in SequenceConfigs
    /\ steps = <<>>
    /\ result = ZeroResult
    /\ alerts = <<>>
    /\ max_score = 0
    /\ total_steps = 0
    /\ hero_alert_fired = FALSE
    /\ final_result = PNone
    /\ event_keys = {}
    /\ pc = "idle"
    /\ outcome = "none"
    /\ returned = PNone
    /\ callbacks = 0
    /\ last = Last("none", PNone)
    /\ graph_runs = 0
    /\ previous = "none"

\* LoopDetector.add_step with a step that carries no tool calls
AddNamedStep ==
    /\ Len(steps) < MaxSeqSteps
    /\ \E n \in SequenceNodeNames :
         /\ steps' = AppendStep(steps, Step(n, <<>>, ""))
         /\ result' \in AnalyzeWindow(Window(steps', cfg.window_size), cfg.threshold)
    /\ last' = Last("add_step", PNone)
    /\ UNCHANGED <<cfg, previous, alerts, max_score, total_steps, hero_alert_fired,
                   final_result, event_keys, pc, outcome, returned, callbacks,
                   graph_runs>>

NextSequence == AddNamedStep \/ Reset

SpecSequence == InitSequence /\ [][NextSequence]_vars

\* ---- sessions whose configuration is outside the documented ranges ----

\* threshold 1.5, window_size 2, min_steps 0
InvalidConfigs ==
    {Config(150, 10, 5, FALSE), Config(70, 2, 5, FALSE), Config(70, 10, 0, TRUE)}

InitInvalid ==
    /\ cfg \in InvalidConfigs
    /\ steps = <<>>
    /\ result = ZeroResult
    /\ alerts = <<>>
    /\ max_score = 0
    /\ total_steps = 0
    /\ hero_alert_fired = FALSE
    /\ final_result = PNone
    /\ event_keys = {}
    /\ pc = "idle"
    /\ outcome = "none"
    /\ returned = PNone
    /\ callbacks = 0
    /\ last = Last("none", PNone)
    /\ graph_runs = 0
    /\ previous = "none"

SpecInvalid == InitInvalid /\ [][Next]_vars

\* ---- the end-to-end scenario: research_agent and analysis_agent alternate ----

ScenarioConfigs == {Config(70, 10, 5, TRUE), Config(70, 10, 5, FALSE)}

\* the node the demo graph runs after total steps (research_agent first)
ScenarioNode(total) ==
    IF total % 2 = 0 THEN "research_agent" ELSE "analysis_agent"

\* research_agent's update with its web_search call, or an update without
\* tool calls; analysis_agent's update
ScenarioOutputs(node_name) ==
    IF node_name = "research_agent" THEN {PSearch, PNone} ELSE {PAnalysis}

InitScenario ==
    /\ cfg \in ScenarioConfigs
    /\ steps = <<>>
    /\ result = ZeroResult
    /\ alerts = <<>>
    /\ max_score = 0
    /\ total_steps = 0
    /\ hero_alert_fired = FALSE
    /\ final_result = PNone
    /\ event_keys = {}
    /\ pc = "idle"
    /\ outcome = "none"
    /\ returned = PNone
    /\ callbacks = 0
    /\ last = Last("none", PNone)
    /\ graph_runs = 0
    /\ previous = "none"

\* the stream yields one single-node event per graph step
ScenarioStep ==
    /\ pc = "streaming"
    /\ total_steps < ScenarioSteps
    /\ \E node_output \in ScenarioOutputs(ScenarioNode(total_steps)) :
         ScoreStep(ScenarioNode(total_steps), node_output)
    /\ UNCHANGED <<cfg, previous, event_keys>>

\* the stream ends after the last step of the scenario
ScenarioEnd ==
    /\ total_steps = ScenarioSteps
    /\ StreamEnd

NextScenario == InvokeAgain \/ ScenarioStep \/ ScenarioEnd

SpecScenario == InitScenario /\ [][NextScenario]_vars

\* ---- a graph whose analysis_agent loops back at once or after two more nodes ----

\* default window with min_steps 1 and 5, and window_size 0
CycleConfigs ==
    {Config(70, 10, 1, TRUE), Config(70, 10, 5, TRUE), Config(70, 0, 5, FALSE)}

\* the nodes that can follow a node: research_agent → analysis_agent, then
\* back to research_agent (a 2-node cycle) or on through writer_agent and
\* review_agent (a 4-node cycle)
CycleNext(node_name) ==
    CASE node_name = "research_agent" -> {"analysis_agent"}
      [] node_name = "analysis_agent" -> {"research_agent", "writer_agent"}
      [] node_name = "writer_agent"   -> {"review_agent"}
      [] OTHER                        -> {"research_agent"}

\* research_agent's update carries its web_search call, the others carry none
CycleOutput(node_name) ==
    IF node_name = "research_agent" THEN PSearch ELSE PAnalysis

InitCycle ==
    /\ cfg \in CycleConfigs
    /\ steps = <<>>
    /\ result = ZeroResult
    /\ alerts = <<>>
    /\ max_score = 0
    /\ total_steps = 0
    /\ hero_alert_fired = FALSE
    /\ final_result = PNone
    /\ event_keys = {}
    /\ pc = "idle"
    /\ outcome = "none"
    /\ returned = PNone
    /\ callbacks = 0
    /\ last = Last("none", PNone)
    /\ graph_runs = 0
    /\ previous = "none"

\* the stream yields one single-node event per graph step
CycleStep ==
    /\ pc = "streaming"
    /\ total_steps < CycleSteps
    /\ \E node_name \in (IF steps = <<>> THEN {"research_agent"}
                          ELSE CycleNext(steps[Len(steps)].node_name)) :
         ScoreStep(node_name, CycleOutput(node_name))
    /\ UNCHANGED <<cfg, previous, event_keys>>

\* the stream ends after the last step
CycleEnd ==
    /\ total_steps = CycleSteps
    /\ StreamEnd

NextCycle == Invoke \/ CycleStep \/ CycleEnd

SpecCycle == InitCycle /\ [][NextCycle]_vars

-----------------------------------------------------------------------------
(* Properties *)

\* the window the detector analyses in the current state
CurWindow == Window(steps, cfg.window_size)

AllSameNode(window) ==
    \A i, j \in 1..Len(window) : window[i].node_name = window[j].node_name

\* the clamped score of a window before rounding
RawScore(window) ==
    LET names == NodeNames(window)
    IN  CombinedScore(Len(window), DetectSequencePattern(names), NodeRep(names),
                      DetectToolRepetition(window))

\* an invoke is in progress or has ended, and no new one has started
SameSession == last'.kind # "start"

SessionState == <<steps, total_steps, max_score, alerts>>

\* C1: within one invoke the escalation happens at most once: on_loop is
\* called at most once, alerts never holds more than one result, and
\* _hero_alert_fired does not go back to false while the session lasts.
C1_AlertAtMostOnce ==
    [][/\ callbacks' <= 1
       /\ Len(alerts') <= 1
       /\ (hero_alert_fired /\ SameSession => hero_alert_fired')]_vars

\* a later step meets the whole alert condition again and does not escalate
C1_Witness ==
    /\ hero_alert_fired
    /\ last.kind = "scored"
    /\ result.is_alert
    /\ result.repeat_count >= 3
    /\ total_steps >= cfg.min_steps
    /\ Len(alerts) = 1
    /\ cfg.on_loop
    /\ callbacks = 1

\* C2: the alert (flag set, result appended, callback called) never fires at
\* a step whose total_steps, counted after the increment, is below min_steps.
C2_NoAlertBeforeMinSteps ==
    [][(\/ ~hero_alert_fired /\ hero_alert_fired'
        \/ Len(alerts') > Len(alerts)
        \/ callbacks' > callbacks)
       => total_steps' >= cfg.min_steps]_vars

\* the alert fired at step min_steps although the step before already had
\* is_alert and repeat_count >= 3
C2_Witness ==
    /\ last.kind = "fired"
    /\ total_steps = cfg.min_steps
    /\ total_steps = Len(steps)
    /\ \E r \in AnalyzeWindow(Window(SubSeq(steps, 1, Len(steps) - 1),
                                     cfg.window_size), cfg.threshold) :
         r.is_alert /\ r.repeat_count >= 3

\* C3: when on_loop raises StopMonitoring at a step, invoke returns at once:
\* no later item is processed, and steps, total_steps, max_score and alerts
\* stay as they were until a new invoke starts.
C3_CancellationStopsConsumption ==
    [][/\ (outcome' = "stopped" => pc' = "returned")
       /\ (outcome = "stopped" /\ SameSession => UNCHANGED SessionState)]_vars

\* cancelled while the stream could have produced more steps
C3_Witness ==
    /\ last.kind = "cancelled"
    /\ outcome = "stopped"
    /\ pc = "returned"
    /\ total_steps = Len(steps)
    /\ Len(steps) < MaxSteps

\* C4: when the callback cancels at a step, invoke returns the payload of
\* that step.
C4_CancelReturnsStepPayload ==
    (pc = "returned" /\ outcome = "stopped") => returned = last.node_output

\* C5: an exception other than StopMonitoring raised while a step is
\* processed is not propagated: invoke returns graph.invoke(input_data), and
\* steps, total_steps, max_score and alerts no longer change in that session.
C5_FaultFallsBack ==
    [][/\ (last'.kind = "fault" =>
             /\ pc' = "returned"
             /\ outcome' = "fallback"
             /\ returned' \in {GraphInvoke(input) : input \in Inputs})
       /\ (outcome = "fallback" /\ SameSession => UNCHANGED SessionState)]_vars

\* the extraction raised after some steps had been scored
C5_Witness ==
    /\ last.kind = "fault"
    /\ last.node_output = PNullToolCalls
    /\ outcome = "fallback"
    /\ pc = "returned"
    /\ total_steps >= 1
    /\ Len(steps) < MaxSteps

\* C6: the detector never holds more than window_size step records.
C6_StepsBoundedByWindow == Len(steps) <= cfg.window_size

\* C7: an add_step call made with the first two steps after construction or
\* reset, or with window_size < 3, returns the zero result.
C7_ShortWindowZero ==
    (last.kind = "add_step" /\ (Len(steps) <= 2 \/ cfg.window_size < 3))
      => result = ZeroResult

C9_SignalsInUnitInterval ==
    /\ result.score \in 0..100
    /\ result.node_repetition \in 0..100
    /\ result.sequence_repetition \in 0..100
    /\ result.tool_repetition \in 0..100

\* a window of one node repeating one tool call: two signals at 1.0
C9_Witness ==
    /\ last.kind = "add_step"
    /\ result.node_repetition = 100
    /\ result.sequence_repetition = 100
    /\ result.tool_repetition >= 75
    /\ result.score > 90

\* C10 as claimed: for every result, node_repetition is 1.0 iff all steps of
\* the window have the same node_name.
C10_NodeRepOneIffUniform ==
    last.kind = "add_step" =>
      (result.node_repetition = 100 <=> AllSameNode(CurWindow))

\* C10 amended: for every result computed on a window of at least 3 steps,
\* node_repetition is 1.0 iff all steps of the window have the same node_name.
C10_NodeRepOneIffUniformFrom3 ==
    (last.kind = "add_step" /\ Len(CurWindow) >= 3) =>
      (result.node_repetition = 100 <=> AllSameNode(CurWindow))

\* a window of at least 3 steps of one node, after the window has slid
C10_Witness ==
    /\ last.kind = "add_step"
    /\ Len(CurWindow) >= 3
    /\ Len(steps) > Len(CurWindow)
    /\ AllSameNode(CurWindow)
    /\ ~AllSameNode(steps)
    /\ result.node_repetition = 100

\* the flattened tool calls of the current window
CurCalls == Flatten([i \in 1..Len(CurWindow) |-> CurWindow[i].tool_calls])

\* a fresh detector was fed exactly the names a, b, a, b, a, b
FedABABAB(a, b) ==
    /\ last.kind = "add_step"
    /\ NodeNames(steps) = <<a, b, a, b, a, b>>

\* C11: for distinct names A, B and window_size >= 6, the sixth add_step of
\* A,B,A,B,A,B on a fresh detector returns pattern "A→B", repeat_count 3 and
\* sequence_repetition 1.0.
C11_ABABABPattern ==
    \A a, b \in SequenceNodeNames :
      (a # b /\ cfg.window_size >= 6 /\ FedABABAB(a, b)) =>
        /\ result.pattern = a \o "→" \o b
        /\ result.repeat_count = 3
        /\ result.sequence_repetition = 100

C11_Witness ==
    /\ cfg.window_size >= 6
    /\ FedABABAB("research_agent", "analysis_agent")
    /\ result.pattern = "research_agent→analysis_agent"
    /\ result.repeat_count = 3

\* what C12 says of a result, given the flattened calls of its window
ToolRepetitionAsClaimed ==
    /\ (\A i, j \in 1..Len(CurCalls) : i # j => CurCalls[i] # CurCalls[j])
         => result.tool_repetition = 0
    /\ (Len(CurCalls) = 2 /\ CurCalls[1] = CurCalls[2])
         => result.tool_repetition = 50
    /\ Len(CurCalls) >= 2
         => result.tool_repetition
              \in Round2(Len(CurCalls) - Cardinality(Range(CurCalls)), Len(CurCalls))

\* C12 as claimed: for every result, tool_repetition is 0.0 for pairwise
\* distinct calls, 0.5 for exactly [x, x], and (total - distinct) / total
\* from two calls on.
C12_ToolRepetition == last.kind = "add_step" => ToolRepetitionAsClaimed

\* C12 amended: the same for every result computed on a window of at least 3
\* steps, the value being rounded to 2 decimals.
C12_ToolRepetitionFrom3 ==
    (last.kind = "add_step" /\ Len(CurWindow) >= 3) => ToolRepetitionAsClaimed

\* a window of at least 3 steps whose calls are exactly [x, x]
C12_Witness ==
    /\ last.kind = "add_step"
    /\ Len(CurWindow) >= 3
    /\ CurCalls = <<"x", "x">>
    /\ result.tool_repetition = 50

\* the signals of a window of steps without tool calls, before rounding:
\* repeat_count, pattern length, seq_rep = seq / n, node_rep, score
SeqSignals(names) ==
    LET seq == DetectSequencePattern(names)
    IN  [n |-> Len(names), count |-> seq.count,
         plen |-> IF seq.count = 0 THEN 0
                  ELSE CHOOSE l \in 2..4 :
                         /\ l <= Len(names)
                         /\ seq.pattern = Join(SubSeq(names,
                                Len(names) - l + 1, Len(names))),
         seq |-> seq.num, node |-> NodeRep(names),
         score |-> CombinedScore(Len(names), seq, NodeRep(names),
                                 [num |-> 0, den |-> 1])]

\* the windows a second detector can hold
OtherWindows ==
    UNION {[1..n -> {"research_agent", "analysis_agent"}] : n \in 3..MaxSeqSteps}

OtherSignals == {SeqSignals(w) : w \in OtherWindows}

SameNodeRep(a, b) == a.node.num * b.node.den = b.node.num * a.node.den

SeqRepNotSmaller(a, b) == b.seq * a.n >= a.seq * b.n

ScoreNotSmaller(a, b) == b.score.num * a.score.den >= a.score.num * b.score.den

\* C13 as claimed: for any second window with the node and tool signals of
\* the current one and a larger repeat_count, sequence_repetition and score
\* are not smaller than the current window's.
C13_MoreRepeatsNotLower ==
    (last.kind = "add_step" /\ Len(CurWindow) >= 3) =>
      LET a == SeqSignals(NodeNames(CurWindow))
      IN  \A b \in OtherSignals :
            (SameNodeRep(a, b) /\ b.count > a.count) =>
              SeqRepNotSmaller(a, b) /\ ScoreNotSmaller(a, b)

\* C13 amended: the same for a second window of the same length whose
\* pattern has the same length.
C13_MoreRepeatsNotLowerSameShape ==
    (last.kind = "add_step" /\ Len(CurWindow) >= 3) =>
      LET a == SeqSignals(NodeNames(CurWindow))
      IN  \A b \in OtherSignals :
            (SameNodeRep(a, b) /\ b.count > a.count
               /\ a.n = b.n /\ a.plen = b.plen) =>
              SeqRepNotSmaller(a, b) /\ ScoreNotSmaller(a, b)

\* the current window repeats its pattern twice, and a window of the same
\* length, pattern length and node_rep repeats it more often
C13_Witness ==
    /\ last.kind = "add_step"
    /\ Len(CurWindow) >= 3
    /\ result.repeat_count = 2
    /\ \E b \in OtherSignals :
         LET a == SeqSignals(NodeNames(CurWindow))
         IN  /\ a.count = result.repeat_count
             /\ SameNodeRep(a, b)
             /\ b.count > a.count
             /\ a.n = b.n
             /\ a.plen = b.plen

\* every research_agent step carries the demo's web_search call
AllSearch ==
    \A i \in 1..Len(steps) :
      steps[i].node_name = "research_agent" =>
        steps[i].tool_calls = ExtractToolCalls(PSearch).calls

\* no step carries a tool call
NoToolCalls == \A i \in 1..Len(steps) : steps[i].tool_calls = <<>>

\* the alert fires exactly once, at or after the 5th processed step, with
\* the alternating pattern repeated at least 3 times
ScenarioAsClaimed ==
    /\ Len(alerts) <= 1
    /\ alerts # <<>> => total_steps >= 5
    /\ \A i \in 1..Len(alerts) :
         /\ alerts[i].pattern = "research_agent" \o "→" \o "analysis_agent"
         /\ alerts[i].repeat_count >= 3
    /\ pc = "returned" => Len(alerts) = 1
    /\ outcome = "completed" => total_steps = ScenarioSteps

\* C14 as claimed: in the alternating scenario the alert fires exactly once,
\* at or after the 5th step, with pattern research_agent→analysis_agent and
\* repeat_count >= 3, whether the research_agent steps all carry the
\* web_search call or no step carries a tool call.
C14_ScenarioFiresOnce == (AllSearch \/ NoToolCalls) => ScenarioAsClaimed

\* C14 amended: the same when every research_agent step carries the
\* web_search call; the alert has then fired by the 6th step.
C14_ScenarioFiresOnceWithCalls ==
    AllSearch =>
      /\ ScenarioAsClaimed
      /\ total_steps >= 6 => Len(alerts) = 1

C14_Witness ==
    /\ AllSearch
    /\ outcome = "completed"
    /\ total_steps = ScenarioSteps
    /\ Len(alerts) = 1
    /\ alerts[1].repeat_count = 3

\* the loop body has just handled an item whose payload is None
NullPayloadProcessed ==
    /\ last'.kind \in {"scored", "fired", "cancelled", "fault"}
    /\ last'.node_output = PNone
    /\ <<steps, last>>' # <<steps, last>>

\* C15: a step whose payload is None is appended to the detector with empty
\* tool_calls and action_label "idle", is scored, and is counted in
\* total_steps.
C15_NullPayloadIdle ==
    [][NullPayloadProcessed =>
         /\ Len(steps') = Len(steps) + 1
         /\ steps'[Len(steps')].tool_calls = <<>>
         /\ steps'[Len(steps')].action_label = "idle"
         /\ total_steps' = total_steps + 1
         /\ result' \in AnalyzeWindow(Window(steps', cfg.window_size), cfg.threshold)]_vars

C15_Witness ==
    /\ last.kind = "scored"
    /\ last.node_output = PNone
    /\ total_steps = 3
    /\ steps[3].action_label = "idle"
    /\ steps[3].tool_calls = <<>>

\* C16 as claimed: extraction never raises, so the session falls back to
\* graph.invoke only when the callback has run and raised.
C16_ExtractionNeverRaises ==
    /\ last.kind = "fault" => ~ExtractToolCalls(last.node_output).raised
    /\ outcome = "fallback" => callbacks = 1

\* the documented ranges: threshold in [0,1], window_size >= 3, min_steps >= 1
ValidConfig(c) ==
    /\ c.threshold \in 0..100
    /\ c.window_size >= 3
    /\ c.min_steps >= 1

\* C17 as claimed: under a configuration outside the documented ranges no
\* step is pulled from the stream and no step is scored.
C17_InvalidConfigRejected ==
    ~ValidConfig(cfg) =>
      /\ steps = <<>>
      /\ total_steps = 0
      /\ last.kind \in {"none", "start"}

\* this step is the start of an invoke
NewSession == pc # "streaming" /\ pc' = "streaming"

\* C19: every invoke begins with an empty detector window, total_steps 0,
\* max_score 0, empty alerts and hero_alert_fired false; within an invoke
\* the flag, once set, stays set and the session state is never reset; and
\* whatever the invoke before did, the flag is set together with the
\* session's single alert.
C19_SessionReset ==
    [][/\ NewSession =>
            /\ steps' = <<>>
            /\ total_steps' = 0
            /\ max_score' = 0
            /\ alerts' = <<>>
            /\ ~hero_alert_fired'
       /\ ~NewSession =>
            /\ hero_alert_fired => hero_alert_fired'
            /\ Len(steps') >= Len(steps)
            /\ total_steps' >= total_steps
            /\ max_score' >= max_score
            /\ Len(alerts') >= Len(alerts)
       /\ (~hero_alert_fired /\ hero_alert_fired') =>
            /\ ~NewSession
            /\ alerts' = <<result'>>]_vars

\* an invoke that follows one that fired the alert fires its own
C19_Witness ==
    /\ previous = "fired"
    /\ hero_alert_fired
    /\ Len(alerts) = 1
    /\ total_steps = 6

\* this step of the loop scored a node
Scored == Len(steps') = Len(steps) + 1

\* the result of the scored node passes the three conditions of the gate
Qualifies ==
    /\ result'.is_alert
    /\ total_steps' >= cfg.min_steps
    /\ result'.repeat_count >= 3

\* C20: the alert fires at the first scored step whose result is_alert with
\* total_steps >= min_steps and repeat_count >= 3, and at no other step; when
\* the callback runs, and after it cancels, hero_alert_fired is true and
\* alerts ends with the result passed to the callback.
C20_FiresAtFirstQualifyingStep ==
    [][/\ (Scored /\ Qualifies /\ ~hero_alert_fired) =>
            /\ hero_alert_fired'
            /\ alerts' = Append(alerts, result')
            /\ cfg.on_loop => callbacks' = callbacks + 1
       /\ (~hero_alert_fired /\ hero_alert_fired') => (Scored /\ Qualifies)
       /\ callbacks' = callbacks + 1 =>
            /\ Scored
            /\ hero_alert_fired'
            /\ alerts' = <<result'>>
       /\ outcome' = "stopped" =>
            /\ hero_alert_fired'
            /\ alerts' = <<result'>>]_vars

\* the callback cancelled at the first qualifying step, which came after
\* min_steps was reached
C20_Witness ==
    /\ last.kind = "cancelled"
    /\ outcome = "stopped"
    /\ hero_alert_fired
    /\ alerts = <<result>>
    /\ callbacks = 1
    /\ total_steps = cfg.min_steps
    /\ result.repeat_count = 3

\* the last l names of the window
Candidate(names, l) == SubSeq(names, Len(names) - l + 1, Len(names))

\* the number of consecutive blocks of length l, counted back from the end
\* of the window, that equal its last l names
TrailingRepeats(names, l) ==
    LET fits(c) == \A j \in 0..(c - 1) :
                     SubSeq(names, Len(names) - (j + 1) * l + 1,
                            Len(names) - j * l) = Candidate(names, l)
    IN  CHOOSE c \in 1..(Len(names) \div l) :
          fits(c) /\ (c = Len(names) \div l \/ ~fits(c + 1))

\* the pattern lengths tried that repeat at least twice
QualifyingLengths(names) ==
    {l \in 2..Min(4, Len(names) \div 2) : TrailingRepeats(names, l) >= 2}

\* coverage of length l, times len(names)
Coverage(names, l) == Min(Len(names), TrailingRepeats(names, l) * l)

\* the triple the claim describes: maximal coverage, shortest length on a tie
PatternAsClaimed(names) ==
    IF QualifyingLengths(names) = {}
    THEN [num |-> 0, pattern |-> "", count |-> 0]
    ELSE LET l == CHOOSE x \in QualifyingLengths(names) :
                    \A y \in QualifyingLengths(names) :
                      \/ Coverage(names, x) > Coverage(names, y)
                      \/ Coverage(names, x) = Coverage(names, y) /\ x <= y
         IN  [num |-> Coverage(names, l),
              pattern |-> Join(Candidate(names, l)),
              count |-> TrailingRepeats(names, l)]

\* C21: on the window's node names sequence detection returns the pattern of
\* maximal coverage among the lengths 2..min(4, n div 2) with at least two
\* trailing repeats, the shortest one on a tie, and (0, "", 0) when no length
\* qualifies; add_step reports that pattern and count.
C21_ShortestPatternOnTie ==
    last.kind = "add_step" =>
      /\ DetectSequencePattern(NodeNames(CurWindow))
           = PatternAsClaimed(NodeNames(CurWindow))
      /\ Len(CurWindow) >= 3 =>
           /\ result.pattern = PatternAsClaimed(NodeNames(CurWindow)).pattern
           /\ result.repeat_count = PatternAsClaimed(NodeNames(CurWindow)).count
           /\ result.sequence_repetition
                \in Round2(PatternAsClaimed(NodeNames(CurWindow)).num,
                           Len(CurWindow))

\* eight identical names: lengths 2 and 4 both cover the window, and the
\* length-2 pattern with repeat_count 4 is reported
C21_Witness ==
    /\ last.kind = "add_step"
    /\ Len(CurWindow) = 8
    /\ \A i \in 1..8 : CurWindow[i].node_name = "research_agent"
    /\ Coverage(NodeNames(CurWindow), 2) = Coverage(NodeNames(CurWindow), 4)
    /\ result.pattern = "research_agent" \o "→" \o "research_agent"
    /\ result.repeat_count = 4

\* C22 as claimed: within one invoke the underlying graph is executed from
\* its input at most once, so no step the stream has produced runs again;
\* in particular a fault leaves the count of executions at one.
C22_GraphRunsOnce ==
    /\ graph_runs <= 1
    /\ last.kind = "fault" => graph_runs = 1

\* the lengths the pattern of the latest result can have
PatternLengths ==
    {l \in 2..4 : /\ l <= Len(CurWindow)
                  /\ result.pattern = Join(Candidate(NodeNames(CurWindow), l))}

\* C23 as claimed: at the step where the alert fires at least 6 steps have
\* been scored, and three repeats of the reported pattern fit in
\* window_size.
C23_AlertNeedsThreeRepeatsInWindow ==
    last.kind \in {"fired", "cancelled"} =>
      /\ total_steps >= 6
      /\ \A l \in PatternLengths : 3 * l <= cfg.window_size

====
